---------------------------- MODULE Spec2Model ----------------------------
(***************************************************************************)
(* A model of jinja2sql (src/jinja2sql/_core.py) and of its predecessor    *)
(* package jinjaq (src/jinjaq/core.py): the render-scoped parameter        *)
(* binder (RenderContext), the placeholder encoder (_bind_param), the      *)
(* filters the rewritten template calls, and the render glue.              *)
(*                                                                         *)
(* Python strings are sequences of one-character strings, so that          *)
(* str.replace, str.join and f-string formatting are computed, not         *)
(* assumed.  A Python dict is a sequence of [k, v] entries in insertion    *)
(* order with unique keys.                                                 *)
(***************************************************************************)
EXTENDS Integers, Sequences, FiniteSets, TLC

\* ------------------------------------------------------------------ bounds

\* Evaluation budget of one render: every interpolation site costs 1, and a
\* list (IN-clause) site costs 1 more for every element of its list.
MaxWork == 3

\* The number of tokens of a template given to the rewriter.
MaxTokens == 5

\* The characters of one identifier segment and the segments of one identifier.
MaxSegmentLen == 2

MaxSegments == 2

\* ----------------------------------------------------------------- strings

DigitChars == <<"0", "1", "2", "3", "4", "5", "6", "7", "8", "9">>

\* str(n) of a non-negative int, as the f-strings of bind_param/_bind_param do.
RECURSIVE IntToStr(_)
IntToStr(n) ==
    IF n < 10 THEN <<DigitChars[n + 1]>>
    ELSE IntToStr(n \div 10) \o <<DigitChars[(n % 10) + 1]>>

\* s.replace("", new): new before every character and at the end.
RECURSIVE ReplaceEmpty(_, _)
ReplaceEmpty(s, new) ==
    IF s = <<>> THEN new
    ELSE new \o <<Head(s)>> \o ReplaceEmpty(Tail(s), new)

\* s.replace(old, new): leftmost non-overlapping occurrences.
RECURSIVE Replace(_, _, _)
Replace(s, old, new) ==
    IF old = <<>> THEN ReplaceEmpty(s, new)
    ELSE IF Len(s) < Len(old) THEN s
    ELSE IF SubSeq(s, 1, Len(old)) = old
         THEN new \o Replace(SubSeq(s, Len(old) + 1, Len(s)), old, new)
    ELSE <<Head(s)>> \o Replace(Tail(s), old, new)

\* sep.join(parts)
RECURSIVE Join(_, _)
Join(sep, parts) ==
    IF parts = <<>> THEN <<>>
    ELSE IF Len(parts) = 1 THEN parts[1]
    ELSE parts[1] \o sep \o Join(sep, Tail(parts))

\* ------------------------------------------------------------------- dicts

DictKeys(d) == [i \in 1..Len(d) |-> d[i].k]

DictValues(d) == [i \in 1..Len(d) |-> d[i].v]

DictHas(d, key) == \E i \in 1..Len(d) : d[i].k = key

DictGet(d, key) == d[CHOOSE i \in 1..Len(d) : d[i].k = key].v

\* d[key] = value: an existing key keeps its position, a new key goes last.
DictSet(d, key, value) ==
    IF DictHas(d, key)
    THEN [i \in 1..Len(d) |-> IF d[i].k = key THEN [k |-> key, v |-> value] ELSE d[i]]
    ELSE Append(d, [k |-> key, v |-> value])

\* defaultdict(lambda: 0)[key]
DefaultGet(d, key) == IF DictHas(d, key) THEN DictGet(d, key) ELSE 0

\* ------------------------------------------------------------------ values

\* Template values: plain strings, Markup strings, the engine's Undefined.
StrValue(s) == [kind |-> "str", v |-> s]

MarkupValue(s) == [kind |-> "Markup", v |-> s]

Undefined == [kind |-> "Undefined", v |-> <<>>]

\* jinja2.is_undefined(value)
is_undefined(value) == value.kind = "Undefined"

\* isinstance(value, Markup)
is_markup(value) == value.kind = "Markup"

\* ---------------------------------------------------------------- dialects

\* A param_style is a dialect name or a caller-supplied function; None is the
\* absent per-call argument.
StyleName(n) == [callable |-> FALSE, name |-> n]

StyleFunc(f) == [callable |-> TRUE, name |-> f]

NoneStyle == [callable |-> FALSE, name |-> "None"]

\* ParamStyle = Literal[...]
ParamStyle == {"named", "qmark", "format", "numeric", "pyformat", "asyncpg"}

DEFAULT_PARAM_STYLE == StyleName("named")

DEFAULT_IDENTIFIER_QUOTE_CHAR == <<>>

\* The caller-supplied functions of the model: the lambda of
\* test_bind_custom_param_style, f"{{{key}}}", and one that uses both arguments.
ParamStyleFunc(f, param_key, param_index) ==
    IF f = "braces" THEN <<"{">> \o param_key \o <<"}">>
    ELSE <<"@">> \o param_key \o <<"#">> \o IntToStr(param_index)

\* x or y
OrElse(x, y, falsy) == IF x \in falsy THEN y ELSE x


\* ----------------------------------------------------------- RenderContext

\* RenderContext.__init__ with the index counter starting at 1.
RenderContext_index_from_one(param_style, identifier_quote_char) ==
    [ param_style           |-> param_style,
      identifier_quote_char |-> identifier_quote_char,
      _params               |-> <<>>,
      _param_index          |-> 1,
      _param_indexes        |-> <<>> ]

\* RenderContext.__init__
RenderContext(param_style, identifier_quote_char) ==
    [ param_style           |-> param_style,
      identifier_quote_char |-> identifier_quote_char,
      _params               |-> <<>>,
      _param_index          |-> 0,
      _param_indexes        |-> <<>> ]

\* param_key_suffix without the occurrence of the name.
param_key_suffix_constant(occurrence, is_in_clause) ==
    IF is_in_clause THEN <<"_", "1">> ELSE <<>>

\* param_key_suffix of bind_param: f"_{self._param_indexes[name]}" or "".
param_key_suffix(occurrence, is_in_clause) ==
    IF is_in_clause THEN <<"_">> \o IntToStr(occurrence) ELSE <<>>

\* param_key of bind_param: f"{name.replace('.', '__')}{param_key_suffix}"
param_key_of(name, suffix) == Replace(name, <<".">>, <<"_", "_">>) \o suffix

\* bind_param counting the call before it tests the value.
bind_param_counts_undefined(ctx, name, value, is_in_clause) ==
    LET index == ctx._param_index + 1
        occurrence == DefaultGet(ctx._param_indexes, name) + 1
        key == param_key_of(name, param_key_suffix(occurrence, is_in_clause))
        counted == [ctx EXCEPT !._param_index = index,
                               !._param_indexes = DictSet(@, name, occurrence)]
    IN  IF is_undefined(value)
        THEN [raised |-> TRUE, ctx |-> counted, param_key |-> <<>>, param_index |-> 0]
        ELSE [ raised      |-> FALSE,
               ctx         |-> [counted EXCEPT !._params = DictSet(@, key, value)],
               param_key   |-> key,
               param_index |-> index ]

\* bind_param storing the value under the name it was given, not under param_key.
bind_param_stores_under_name(ctx, name, value, is_in_clause) ==
    IF is_undefined(value)
    THEN [raised |-> TRUE, ctx |-> ctx, param_key |-> <<>>, param_index |-> 0]
    ELSE LET index == ctx._param_index + 1
             occurrence == DefaultGet(ctx._param_indexes, name) + 1
             key == param_key_of(name, param_key_suffix(occurrence, is_in_clause))
         IN  [ raised      |-> FALSE,
               ctx         |-> [ctx EXCEPT !._param_index = index,
                                           !._param_indexes = DictSet(@, name, occurrence),
                                           !._params = DictSet(@, name, value)],
               param_key   |-> key,
               param_index |-> index ]

\* bind_param returning the occurrence counter of the name as the index.
bind_param_returns_occurrence(ctx, name, value, is_in_clause) ==
    IF is_undefined(value)
    THEN [raised |-> TRUE, ctx |-> ctx, param_key |-> <<>>, param_index |-> 0]
    ELSE LET index == ctx._param_index + 1
             occurrence == DefaultGet(ctx._param_indexes, name) + 1
             key == param_key_of(name, param_key_suffix(occurrence, is_in_clause))
         IN  [ raised      |-> FALSE,
               ctx         |-> [ctx EXCEPT !._param_index = index,
                                           !._param_indexes = DictSet(@, name, occurrence),
                                           !._params = DictSet(@, key, value)],
               param_key   |-> key,
               param_index |-> occurrence ]

\* bind_param with the occurrence suffix on every key, scalar binds included.
bind_param_suffixes_every_key(ctx, name, value, is_in_clause) ==
    IF is_undefined(value)
    THEN [raised |-> TRUE, ctx |-> ctx, param_key |-> <<>>, param_index |-> 0]
    ELSE LET index == ctx._param_index + 1
             occurrence == DefaultGet(ctx._param_indexes, name) + 1
             key == param_key_of(name, <<"_">> \o IntToStr(occurrence))
         IN  [ raised      |-> FALSE,
               ctx         |-> [ctx EXCEPT !._param_index = index,
                                           !._param_indexes = DictSet(@, name, occurrence),
                                           !._params = DictSet(@, key, value)],
               param_key   |-> key,
               param_index |-> index ]

\* RenderContext.bind_param: the context after the call and what it returns;
\* raised is the UndefinedError of an undefined value.
bind_param(ctx, name, value, is_in_clause) ==
    IF is_undefined(value)
    THEN [raised |-> TRUE, ctx |-> ctx, param_key |-> <<>>, param_index |-> 0]
    ELSE LET index == ctx._param_index + 1
             occurrence == DefaultGet(ctx._param_indexes, name) + 1
             key == param_key_of(name, param_key_suffix(occurrence, is_in_clause))
         IN  [ raised      |-> FALSE,
               ctx         |-> [ctx EXCEPT !._param_index = index,
                                           !._param_indexes = DictSet(@, name, occurrence),
                                           !._params = DictSet(@, key, value)],
               param_key   |-> key,
               param_index |-> index ]

\* The dialects whose parameters jinjaq returns as a tuple.
PositionalStyles == {"qmark", "format", "numeric", "asyncpg"}

\* Params(self._params) of jinja2sql: a Mapping wrapped around the dict.
Params(params) == [type |-> "Params", data |-> params]

\* params returning the keys of the dict where the values are meant.
params_of_keys(impl, ctx) ==
    IF impl = "jinja2sql" THEN Params([i \in 1..Len(ctx._params) |->
                                          [k |-> ctx._params[i].k, v |-> ctx._params[i].k]])
    ELSE IF ~ctx.param_style.callable /\ ctx.param_style.name \in PositionalStyles
         THEN [type |-> "tuple", data |-> DictKeys(ctx._params)]
    ELSE [type |-> "dict", data |-> ctx._params]

\* RenderContext.params of the two packages.
params_of(impl, ctx) ==
    IF impl = "jinja2sql" THEN Params(ctx._params)
    ELSE IF ~ctx.param_style.callable /\ ctx.param_style.name \in PositionalStyles
         THEN [type |-> "tuple", data |-> DictValues(ctx._params)]
    ELSE [type |-> "dict", data |-> ctx._params]

\* len(params)
Params_len(p) == Len(p.data)

\* The exception a subscription raises, as a value.
LookupError(type) == [kind |-> type, v |-> <<>>]

\* params[i] for an int i (0-based): Params.__getitem__ takes
\* list(self._params.values())[i], a tuple is indexed, a dict has no int key.
Params_getitem_int(p, i) ==
    IF p.type = "dict" THEN LookupError("KeyError")
    ELSE IF i >= Len(p.data) THEN LookupError("IndexError")
    ELSE IF p.type = "tuple" THEN p.data[i + 1]
    ELSE DictValues(p.data)[i + 1]

\* params[key] for a str key: self._params[key] of a Params, the entry of a
\* dict; a tuple takes no str.
Params_getitem_key(p, key) ==
    IF p.type = "tuple" THEN LookupError("TypeError")
    ELSE IF ~DictHas(p.data, key) THEN LookupError("KeyError")
    ELSE DictGet(p.data, key)

\* iter(params): the keys of a Params or a dict, the items of a tuple.
Params_iter(p) == IF p.type = "tuple" THEN p.data ELSE DictKeys(p.data)

\* ------------------------------------------------------------ _bind_param

\* The dialect branches with numeric taking the key where the index is meant.
placeholder_numeric_key(impl, param_style, key, index) ==
    IF impl = "jinja2sql" /\ param_style.callable
    THEN [error |-> "none", text |-> ParamStyleFunc(param_style.name, key, index)]
    ELSE IF param_style.callable THEN [error |-> "ValueError", text |-> <<>>]
    ELSE IF param_style.name \in {"named", "numeric"}
         THEN [error |-> "none", text |-> <<":">> \o key]
    ELSE IF param_style.name = "qmark" THEN [error |-> "none", text |-> <<"?">>]
    ELSE IF param_style.name = "format" THEN [error |-> "none", text |-> <<"%", "s">>]
    ELSE IF param_style.name = "pyformat"
         THEN [error |-> "none", text |-> <<"%", "(">> \o key \o <<")", "s">>]
    ELSE IF param_style.name = "asyncpg"
         THEN [error |-> "none", text |-> <<"$">> \o IntToStr(index)]
    ELSE [error |-> "ValueError", text |-> <<>>]

\* The dialect branches with named as the branch of last resort.
placeholder_named_otherwise(impl, param_style, key, index) ==
    IF impl = "jinja2sql" /\ param_style.callable
    THEN [error |-> "none", text |-> ParamStyleFunc(param_style.name, key, index)]
    ELSE IF param_style.callable THEN [error |-> "ValueError", text |-> <<>>]
    ELSE IF param_style.name = "qmark" THEN [error |-> "none", text |-> <<"?">>]
    ELSE IF param_style.name = "format" THEN [error |-> "none", text |-> <<"%", "s">>]
    ELSE IF param_style.name = "numeric"
         THEN [error |-> "none", text |-> <<":">> \o IntToStr(index)]
    ELSE IF param_style.name = "pyformat"
         THEN [error |-> "none", text |-> <<"%", "(">> \o key \o <<")", "s">>]
    ELSE IF param_style.name = "asyncpg"
         THEN [error |-> "none", text |-> <<"$">> \o IntToStr(index)]
    ELSE [error |-> "none", text |-> <<":">> \o key]

\* The dialect branches of Jinja2SQL._bind_param / JinjaQ._bind_param:
\* the placeholder text, or the ValueError of an invalid param_style.  Only
\* jinja2sql tests callable(param_style).
placeholder(impl, param_style, key, index) ==
    IF impl = "jinja2sql" /\ param_style.callable
    THEN [error |-> "none", text |-> ParamStyleFunc(param_style.name, key, index)]
    ELSE IF param_style.callable THEN [error |-> "ValueError", text |-> <<>>]
    ELSE IF param_style.name = "named" THEN [error |-> "none", text |-> <<":">> \o key]
    ELSE IF param_style.name = "qmark" THEN [error |-> "none", text |-> <<"?">>]
    ELSE IF param_style.name = "format" THEN [error |-> "none", text |-> <<"%", "s">>]
    ELSE IF param_style.name = "numeric"
         THEN [error |-> "none", text |-> <<":">> \o IntToStr(index)]
    ELSE IF param_style.name = "pyformat"
         THEN [error |-> "none", text |-> <<"%", "(">> \o key \o <<")", "s">>]
    ELSE IF param_style.name = "asyncpg"
         THEN [error |-> "none", text |-> <<"$">> \o IntToStr(index)]
    ELSE [error |-> "ValueError", text |-> <<>>]

\* What one filter call leaves behind: the context, the text it returns or the
\* error it raises (an UndefinedError names its parameter), and the bind_param
\* calls that returned (their arguments, the key and index returned, and the
\* placeholder text when one was produced).
Outcome(ctx, error, name, text, binds) ==
    [ctx |-> ctx, error |-> error, name |-> name, text |-> text, binds |-> binds]

\* Jinja2SQL._bind_param / JinjaQ._bind_param
_bind_param(impl, ctx, key, value, is_in_clause) ==
    LET r == bind_param(ctx, key, value, is_in_clause)
        p == placeholder(impl, r.ctx.param_style, r.param_key, r.param_index)
        b == [name |-> key, in_clause |-> is_in_clause, key |-> r.param_key,
              index |-> r.param_index, value |-> value,
              text |-> p.text, emitted |-> p.error = "none"]
    IN  IF r.raised THEN Outcome(r.ctx, "UndefinedError", key, <<>>, <<>>)
        ELSE Outcome(r.ctx, p.error, <<>>, p.text, <<b>>)

\* ----------------------------------------------------------------- filters

\* _bind_filter without the test for Markup.
_bind_filter_binds_markup(impl, ctx, value, name) ==
    _bind_param(impl, ctx, name, value, FALSE)

\* _bind_filter: a Markup value is returned as it is, anything else is bound.
_bind_filter(impl, ctx, value, name) ==
    IF is_markup(value) THEN Outcome(ctx, "none", <<>>, value.v, <<>>)
    ELSE _bind_param(impl, ctx, name, value, FALSE)

\* The loop of _bind_in_clause_filter over the items left, with the results
\* and the binds so far; an error of one item ends the call.
RECURSIVE bind_items(_, _, _, _, _, _)
bind_items(impl, ctx, name, items, results, binds) ==
    IF items = <<>>
    THEN Outcome(ctx, "none", <<>>,
                 <<"(">> \o Join(<<",", " ">>, results) \o <<")">>, binds)
    ELSE LET o == _bind_param(impl, ctx, name, Head(items), TRUE)
         IN  IF o.error # "none"
             THEN Outcome(o.ctx, o.error, o.name, <<>>, binds \o o.binds)
             ELSE bind_items(impl, o.ctx, name, Tail(items),
                             Append(results, o.text), binds \o o.binds)

\* list(value): the items of a list; iterating Undefined yields nothing.
list_of(value) == IF value.kind = "list" THEN value.v ELSE <<>>

\* _bind_in_clause_filter
_bind_in_clause_filter(impl, ctx, value, name) ==
    bind_items(impl, ctx, name, list_of(value), <<>>, <<>>)

\* _quote_and_escape without the doubling of the quote character.
_quote_and_escape_plain(quote_char, item) == quote_char \o item \o quote_char

\* _quote_and_escape of _identifier_filter
_quote_and_escape(quote_char, item) ==
    quote_char \o Replace(item, quote_char, quote_char \o quote_char) \o quote_char

\* isinstance(value, str): Markup is a str.
is_str(value) == value.kind \in {"str", "Markup"}

\* isinstance(value, Iterable): a str, a list, and Undefined, which iterates
\* as empty; an int is not.
is_iterable(value) == value.kind \in {"str", "Markup", "list", "Undefined"}

\* _identifier_filter
_identifier_filter(quote_char, value) ==
    LET identifier == IF is_str(value) THEN <<value.v>> ELSE list_of(value)
    IN  IF ~is_iterable(value)
        THEN [error |-> "ValueError", value |-> MarkupValue(<<>>)]
        ELSE [error |-> "none",
              value |-> MarkupValue(
                  Join(<<".">>, [i \in 1..Len(identifier) |->
                                    _quote_and_escape(quote_char, identifier[i])]))]

\* ---------------------------------------------------------------- rewriter

\* jinja2.lexer.Token(lineno, type, value)
Token(lineno, type, value) == [lineno |-> lineno, type |-> type, value |-> value]

\* skip_filters without safe.
skip_filters_without_safe ==
    {<<"b", "i", "n", "d">>, <<"_", "b", "i", "n", "d", "_", "i", "n">>}

\* Jinja2SQLExtension.skip_filters / JinjaQExtension.skip_filters
skip_filters ==
    {<<"b", "i", "n", "d">>, <<"_", "b", "i", "n", "d", "_", "i", "n">>, <<"s", "a", "f", "e">>}

\* The loop of _extract_param_name with continue in the place of break: a
\* token of another kind is passed over and the names after it are joined.
RECURSIVE extract_name_without_break(_, _)
extract_name_without_break(tokens, name) ==
    IF tokens = <<>> THEN name
    ELSE IF Head(tokens).type \in {"name", "dot"}
         THEN extract_name_without_break(Tail(tokens), name \o Head(tokens).value)
    ELSE extract_name_without_break(Tail(tokens), name)

\* The loop of _extract_param_name over the tokens left.
RECURSIVE extract_name(_, _)
extract_name(tokens, name) ==
    IF tokens = <<>> THEN name
    ELSE IF Head(tokens).type = "variable_begin" THEN extract_name(Tail(tokens), name)
    ELSE IF Head(tokens).type \in {"name", "dot"}
         THEN extract_name(Tail(tokens), name \o Head(tokens).value)
    ELSE name

\* _extract_param_name
_extract_param_name(tokens) ==
    LET name == extract_name(tokens, <<>>)
    IN  IF name = <<>> THEN <<"b", "i", "n", "d", "_", "0">> ELSE name

\* list.insert(1, x)
Insert1(l, x) == <<Head(l), x>> \o Tail(l)

\* The filter filter_stream chooses for a site that is not exempt.
filter_name_of(last_token) ==
    IF last_token.value = <<"i", "n", "c", "l", "a", "u", "s", "e">>
    THEN <<"_", "b", "i", "n", "d", "_", "i", "n">>
    ELSE <<"b", "i", "n", "d">>

\* Whether filter_stream rewrites the site whose last token this is.
is_rewritten(last_token) ==
    last_token.type # "name" \/ last_token.value \notin skip_filters

\* The body of filter_stream without the group around the expression.
rewrite_site_without_group(var_expr, variable_end) ==
    LET last_token == var_expr[Len(var_expr)]
        lineno == last_token.lineno
    IN  IF is_rewritten(last_token)
        THEN var_expr
                 \o << Token(lineno, "pipe", <<"|">>),
                       Token(lineno, "name", filter_name_of(last_token)),
                       Token(lineno, "lparen", <<"(">>),
                       Token(lineno, "string", _extract_param_name(var_expr)),
                       Token(lineno, "rparen", <<")">>),
                       variable_end >>
        ELSE Append(var_expr, variable_end)

\* The body of filter_stream for one interpolation: var_expr holds the tokens
\* from variable_begin up to variable_end; the result is what it yields.
rewrite_site(var_expr, variable_end) ==
    LET last_token == var_expr[Len(var_expr)]
        lineno == last_token.lineno
    IN  IF is_rewritten(last_token)
        THEN Insert1(var_expr, Token(lineno, "lparen", <<"(">>))
                 \o << Token(lineno, "rparen", <<")">>),
                       Token(lineno, "pipe", <<"|">>),
                       Token(lineno, "name", filter_name_of(last_token)),
                       Token(lineno, "lparen", <<"(">>),
                       Token(lineno, "string", _extract_param_name(var_expr)),
                       Token(lineno, "rparen", <<")">>),
                       variable_end >>
        ELSE Append(var_expr, variable_end)

\* The tokens of a stream before its first variable_end.
RECURSIVE until_variable_end(_)
until_variable_end(tokens) ==
    IF Head(tokens).type = "variable_end" THEN <<>>
    ELSE <<Head(tokens)>> \o until_variable_end(Tail(tokens))

\* ------------------------------------------------------------------- state

VARIABLES
    impl,                        \* the package of the instance: Jinja2SQL or JinjaQ
    self_param_style,            \* self.param_style
    self_identifier_quote_char,  \* self.identifier_quote_char
    render_context_var,          \* self._render_context_var: "None" or "ctx"
    ctx,                         \* the RenderContext object created last
    pc,                          \* "idle", or "rendering" inside template.render
    query,                       \* the text template.render has produced so far
    work,                        \* the evaluation budget used by this render
    bind_log,                    \* the bind_param calls of this render that returned
    last,                        \* the last filter call: its operation and Outcome
    result,                      \* what the last render call gave its caller
    stream,                      \* the tokens filter_stream has not read yet
    yielded,                     \* the tokens filter_stream has yielded
    tasks,                       \* per task: the render call it is in, and its results
    context_values,              \* self._render_context_var: its value in each task's context
    heap                         \* the RenderContext object each task's render created

vars == << impl, self_param_style, self_identifier_quote_char, render_context_var,
           ctx, pc, query, work, bind_log, last, result, stream, yielded,
           tasks, context_values, heap >>

instance_vars == << impl, self_param_style, self_identifier_quote_char >>

render_vars == << render_context_var, ctx, pc, query, work, bind_log, last, result >>

rewriter_vars == << stream, yielded >>

task_vars == << tasks, context_values, heap >>

\* ------------------------------------------------------------------ inputs

Impls == {"jinja2sql", "jinjaq"}

\* The dialects a caller passes: the six names, a name that is none of them,
\* and two functions.
StyleInputs ==
    {StyleName(n) : n \in ParamStyle \cup {"oracle"}}
        \cup {StyleFunc("braces"), StyleFunc("indexed")}

NoneChar == <<"None">>

QuoteChars == {<<>>, <<"\"">>}

\* The keyword arguments (param_style, identifier_quote_char) of a render call:
\* every dialect with no quote character given, and every quote character
\* with no dialect given or with one positional dialect.
CallArgs ==
    {<<s, NoneChar>> : s \in StyleInputs \cup {NoneStyle}}
        \cup {<<s, q>> : s \in {NoneStyle, StyleName("qmark")}, q \in QuoteChars}

\* The parameter names the rewritten template passes to bind / _bind_in.
Names == {<<"x">>, <<"x", "_", "1">>, <<"a", ".", "b">>}

PlainValues == {StrValue(<<"u">>), StrValue(<<"w">>)}

ScalarInputs == PlainValues \cup {Undefined}

ListValue(items) == [kind |-> "list", v |-> items]

RECURSIVE SeqsUpTo(_, _)
SeqsUpTo(S, n) ==
    IF n = 0 THEN {<<>>}
    ELSE LET shorter == SeqsUpTo(S, n - 1)
         IN  shorter \cup {Append(q, e) : q \in {r \in shorter : Len(r) = n - 1}, e \in S}

\* The values of a list site within a budget of n elements; Undefined stands
\* for a variable the context does not hold.
ListInputs(n) == {ListValue(items) : items \in SeqsUpTo(ScalarInputs, n)} \cup {Undefined}

\* The values piped into the identifier filter of a render: a str with the
\* quote character in it, and an int.
IdentifierInputs == {StrValue(<<"t", "\"">>), [kind |-> "int", v |-> <<>>]}

NoResult == [kind |-> "none", query |-> <<>>, params |-> Params(<<>>), error |-> "none", name |-> <<>>]

\* RenderedQuery(query=query, params=self._render_context.params)
RenderedQuery(q, ps) ==
    [kind |-> "RenderedQuery", query |-> q, params |-> ps, error |-> "none", name |-> <<>>]

\* An exception leaving the render call: its type and the parameter it names.
Raised(error, name) ==
    [kind |-> "error", query |-> <<>>, params |-> Params(<<>>), error |-> error, name |-> name]

NoCall == [op |-> "none", name |-> <<>>, arg |-> Undefined, out |-> Outcome(RenderContext(NoneStyle, <<>>), "none", <<>>, <<>>, <<>>)]

\* The tasks that call the render methods of the instance.
Task == {"A", "B"}

\* A task that has called no render method yet.
IdleTask ==
    [pc |-> "idle", args |-> <<NoneStyle, NoneChar>>, token |-> "None", sites |-> <<>>,
     query |-> <<>>, bind_log |-> <<>>, result |-> NoResult, earlier |-> <<>>, used |-> 0]

\* No task has called a render method: the context variable has its default,
\* None, in every task's context.
NoTasks ==
    /\ tasks = [t \in Task |-> IdleTask]
    /\ context_values = [t \in Task |-> "None"]
    /\ heap = [t \in Task |-> RenderContext(NoneStyle, <<>>)]

\* -------------------------------------------------------------------- Init

\* Jinja2SQL.__init__ / JinjaQ.__init__: the instance is constructed with the
\* default dialect and quote character; no render has begun.
Init ==
    /\ impl \in Impls
    /\ self_param_style = DEFAULT_PARAM_STYLE
    /\ self_identifier_quote_char = DEFAULT_IDENTIFIER_QUOTE_CHAR
    /\ render_context_var = "None"
    /\ ctx = RenderContext(NoneStyle, <<>>)
    /\ pc = "idle"
    /\ query = <<>>
    /\ work = 0
    /\ bind_log = <<>>
    /\ last = NoCall
    /\ result = NoResult
    /\ stream = <<>>
    /\ yielded = <<>>
    /\ NoTasks

\* ----------------------------------------------------------------- actions

\* _begin_render_context up to its yield, entered by from_string/from_file:
\* a new RenderContext, param_style or self.param_style, is set in the
\* context variable.
Begin(param_style, identifier_quote_char) ==
    /\ pc = "idle"
    /\ ctx' = RenderContext(
                  OrElse(param_style, self_param_style, {NoneStyle}),
                  OrElse(identifier_quote_char, self_identifier_quote_char,
                         {NoneChar, <<>>}))
    /\ render_context_var' = "ctx"
    /\ pc' = "rendering"
    /\ query' = <<>>
    /\ work' = 0
    /\ bind_log' = <<>>
    /\ last' = NoCall
    /\ result' = NoResult
    /\ UNCHANGED << instance_vars, rewriter_vars, task_vars >>

\* The rest of a step of template.render after a filter call: its text joins
\* the query, or its error leaves the render call through the finally of
\* _begin_render_context, which resets the context variable.
Evaluated(op, name, arg, o, cost) ==
    /\ last' = [op |-> op, name |-> name, arg |-> arg, out |-> o]
    /\ ctx' = o.ctx
    /\ bind_log' = bind_log \o o.binds
    /\ work' = work + cost
    /\ IF o.error = "none"
       THEN /\ query' = query \o o.text
            /\ UNCHANGED << pc, render_context_var, result >>
       ELSE /\ query' = query
            /\ pc' = "idle"
            /\ render_context_var' = "None"
            /\ result' = Raised(o.error, o.name)
    /\ UNCHANGED << instance_vars, rewriter_vars, task_vars >>

\* A site "{{ expr }}", rewritten to "{{ (expr) | bind(name) }}", or an
\* explicit "{{ expr | bind(name) }}": _bind_filter on the value of expr.
SiteBind(name, value) ==
    /\ pc = "rendering" /\ render_context_var = "ctx"
    /\ work + 1 <= MaxWork
    /\ Evaluated("bind", name, value, _bind_filter(impl, ctx, value, name), 1)

\* A site "{{ expr | inclause }}", rewritten to
\* "{{ (expr | inclause) | _bind_in(name) }}": _bind_in_clause_filter.
SiteBindIn(name, value) ==
    /\ pc = "rendering" /\ render_context_var = "ctx"
    /\ work + 1 + Len(list_of(value)) <= MaxWork
    /\ Evaluated("_bind_in", name, value, _bind_in_clause_filter(impl, ctx, value, name),
                 1 + Len(list_of(value)))

\* A site "{{ expr | identifier }}", rewritten to
\* "{{ (expr | identifier) | bind(name) }}": _identifier_filter, then
\* _bind_filter on the Markup it returns.
SiteIdentifier(name, value) ==
    /\ pc = "rendering" /\ render_context_var = "ctx"
    /\ work + 1 <= MaxWork
    /\ LET m == _identifier_filter(ctx.identifier_quote_char, value)
       IN  Evaluated("identifier", name, value,
                     IF m.error # "none" THEN Outcome(ctx, m.error, <<>>, <<>>, <<>>)
                     ELSE _bind_filter(impl, ctx, m.value, name),
                     1)

\* A site "{{ expr | safe }}": exempt from the rewrite (skip_filters), so no
\* filter of this package runs; the engine inserts the Markup of the value.
SiteSafe(value) ==
    /\ pc = "rendering" /\ render_context_var = "ctx"
    /\ work + 1 <= MaxWork
    /\ Evaluated("safe", <<>>, value, Outcome(ctx, "none", <<>>, value.v, <<>>), 1)

\* template.render returns: _render packs the query and the parameters of the
\* context, and _begin_render_context resets the context variable.
End ==
    /\ pc = "rendering" /\ render_context_var = "ctx"
    /\ result' = RenderedQuery(query, params_of(impl, ctx))
    /\ render_context_var' = "None"
    /\ pc' = "idle"
    /\ UNCHANGED << instance_vars, rewriter_vars, task_vars, ctx, query, work, bind_log, last >>

Next ==
    \/ \E a \in CallArgs : Begin(a[1], a[2])
    \/ \E n \in Names, v \in ScalarInputs : SiteBind(n, v)
    \/ \E n \in Names, v \in ListInputs(MaxWork - 1) : SiteBindIn(n, v)
    \/ \E n \in Names, v \in IdentifierInputs : SiteIdentifier(n, v)
    \/ \E v \in {StrValue(<<"u">>)} : SiteSafe(v)
    \/ End

Spec == Init /\ [][Next]_vars

\* ------------------------------------------------- the rewriter on its own

V_x == <<"x">>

\* The tokens of an interpolation the lexer hands over: names that are exempt
\* filters, other names, the filter pipe, the attribute dot, and string
\* literals that spell a reserved name.
ExprTokens ==
    {Token(1, "name", v) :
         v \in {<<"b", "i", "n", "d">>, <<"_", "b", "i", "n", "d", "_", "i", "n">>,
                <<"s", "a", "f", "e">>, V_x, <<"i", "n", "c", "l", "a", "u", "s", "e">>}}
        \cup {Token(1, "pipe", <<"|">>), Token(1, "dot", <<".">>)}
        \cup {Token(1, "string", v) :
                  v \in {<<"s", "a", "f", "e">>, <<"i", "n", "c", "l", "a", "u", "s", "e">>}}

DataToken == Token(1, "data", <<"d">>)

BeginToken == Token(1, "variable_begin", <<"{", "{">>)

EndToken == Token(1, "variable_end", <<"}", "}">>)

RECURSIVE SeqsOfLen(_, _)
SeqsOfLen(S, n) ==
    IF n = 0 THEN {<<>>} ELSE {Append(q, e) : q \in SeqsOfLen(S, n - 1), e \in S}

\* The token streams of at most n tokens in which every variable_begin is
\* closed, as the lexer guarantees.
RECURSIVE Templates(_)
Templates(n) ==
    IF n = 0 THEN {<<>>}
    ELSE {<<>>}
         \cup {<<DataToken>> \o t : t \in Templates(n - 1)}
         \cup UNION { {<<BeginToken>> \o e \o <<EndToken>> \o t :
                           e \in SeqsOfLen(ExprTokens, k), t \in Templates(n - 2 - k)}
                      : k \in 0..(n - 2) }

\* A template has been lexed and filter_stream is about to read it.
InitRewrite ==
    /\ impl \in Impls
    /\ self_param_style = DEFAULT_PARAM_STYLE
    /\ self_identifier_quote_char = DEFAULT_IDENTIFIER_QUOTE_CHAR
    /\ render_context_var = "None"
    /\ ctx = RenderContext(NoneStyle, <<>>)
    /\ pc = "idle"
    /\ query = <<>>
    /\ work = 0
    /\ bind_log = <<>>
    /\ last = NoCall
    /\ result = NoResult
    /\ stream \in Templates(MaxTokens)
    /\ yielded = <<>>
    /\ NoTasks

\* One turn of the while loop of filter_stream: the next token is yielded, or
\* the interpolation it begins is read to its variable_end and yielded,
\* rewritten or not.
FilterStreamStep ==
    /\ stream # <<>>
    /\ IF Head(stream).type = "variable_begin"
       THEN LET var_expr == until_variable_end(stream)
                variable_end == stream[Len(var_expr) + 1]
            IN  /\ yielded' = yielded \o rewrite_site(var_expr, variable_end)
                /\ stream' = SubSeq(stream, Len(var_expr) + 2, Len(stream))
       ELSE /\ yielded' = Append(yielded, Head(stream))
            /\ stream' = Tail(stream)
    /\ UNCHANGED << instance_vars, render_vars, task_vars >>

NextRewrite == FilterStreamStep

SpecRewrite == InitRewrite /\ [][NextRewrite]_vars

\* --------------------------------------------- the identifier filter alone

SegmentChars == {"a", "\""}

Segments == SeqsUpTo(SegmentChars, MaxSegmentLen)

\* The values piped into the identifier filter: a str, a sequence of str, and
\* an int, which is not iterable.
IdentifierStrings == {StrValue(seg) : seg \in Segments}

IdentifierLists == {ListValue(segs) : segs \in SeqsUpTo(Segments, MaxSegments)}

IntValue == [kind |-> "int", v |-> <<>>]

IdentifierQuoteChars == {<<>>, <<"\"">>, <<"'">>}

\* A render is at its last site; its context has any quote character.
InitIdentifier ==
    /\ impl \in Impls
    /\ self_param_style = DEFAULT_PARAM_STYLE
    /\ self_identifier_quote_char = DEFAULT_IDENTIFIER_QUOTE_CHAR
    /\ render_context_var = "ctx"
    /\ \E q \in IdentifierQuoteChars : ctx = RenderContext(DEFAULT_PARAM_STYLE, q)
    /\ pc = "rendering"
    /\ query = <<>>
    /\ work = MaxWork - 1
    /\ bind_log = <<>>
    /\ last = NoCall
    /\ result = NoResult
    /\ stream = <<>>
    /\ yielded = <<>>
    /\ NoTasks

NextIdentifier ==
    \/ \E v \in IdentifierStrings : SiteIdentifier(V_x, v)
    \/ \E v \in IdentifierLists : SiteIdentifier(V_x, v)
    \/ SiteIdentifier(V_x, IntValue)
    \/ End

SpecIdentifier == InitIdentifier /\ [][NextIdentifier]_vars

\* ------------------------------------- render calls of one instance, by task

\* The render calls begun and the sites evaluated, over all tasks.
MaxSteps == 4

\* contextvars.ContextVar.get in the context of task t
ContextVar_get(values, t) == values[t]

\* An attribute of the instance in the place of the context variable: a set
\* in one task is what every task reads.
ContextVar_set_shared(values, t, value) == [u \in DOMAIN values |-> value]

\* contextvars.ContextVar.set in the context of task t: every task runs in
\* its own copy of the context, so the other tasks keep their values.
ContextVar_set(values, t, value) == [values EXCEPT ![t] = value]

\* contextvars.ContextVar.reset(token): the value before the set is back.
ContextVar_reset(values, t, token) == ContextVar_set(values, t, token)

\* Jinja2SQL(param_style=..., identifier_quote_char=...): the defaults of the
\* instance, among them a dialect name that is none of the six.
InstanceArgs ==
    { <<StyleName("named"), <<"\"">> >>, <<StyleName("oracle"), <<>> >> }

\* The keyword arguments of the render calls of the tasks.
TaskCallArgs ==
    { <<NoneStyle, NoneChar>>, <<StyleName("numeric"), <<>> >>,
      <<StyleName("oracle"), <<"\"">> >> }

\* An interpolation site as the rewritten template evaluates it: the filter
\* that ends it, the parameter name, and the value piped in.
Site(op, name, arg) == [op |-> op, name |-> name, arg |-> arg]

TaskSites ==
    { Site("bind", V_x, StrValue(<<"u">>)), Site("bind", V_x, StrValue(<<"w">>)),
      Site("bind", V_x, Undefined),
      Site("_bind_in", V_x, ListValue(<<StrValue(<<"w">>)>>)),
      Site("identifier", V_x, StrValue(<<"t", "\"">>)) }

\* The filter calls of one site, on the context the context variable gives.
site_outcome(package, context, site) ==
    CASE site.op = "bind" -> _bind_filter(package, context, site.arg, site.name)
      [] site.op = "_bind_in" ->
             _bind_in_clause_filter(package, context, site.arg, site.name)
      [] OTHER ->
             LET m == _identifier_filter(context.identifier_quote_char, site.arg)
             IN  IF m.error # "none" THEN Outcome(context, m.error, <<>>, <<>>, <<>>)
                 ELSE _bind_filter(package, context, m.value, site.name)

\* The render calls begun and the sites evaluated so far.
Steps == tasks["A"].used + tasks["B"].used

\* Jinja2SQL.__init__ with its arguments; the tasks have called nothing.
InitCalls ==
    /\ impl = "jinja2sql"
    /\ \E a \in InstanceArgs :
           /\ self_param_style = a[1]
           /\ self_identifier_quote_char = a[2]
    /\ render_context_var = "None"
    /\ ctx = RenderContext(NoneStyle, <<>>)
    /\ pc = "idle"
    /\ query = <<>>
    /\ work = 0
    /\ bind_log = <<>>
    /\ last = NoCall
    /\ result = NoResult
    /\ stream = <<>>
    /\ yielded = <<>>
    /\ NoTasks

\* from_string / from_string_async in task t, up to the yield of
\* _begin_render_context: a new RenderContext is set in the context variable
\* and the token of the set is kept for the reset. Task A names the task that
\* calls first.
TaskBegin(t, param_style, identifier_quote_char) ==
    /\ tasks[t].pc = "idle"
    /\ Steps < MaxSteps
    /\ t = "A" \/ tasks["A"].used > 0
    /\ heap' = [heap EXCEPT ![t] =
                   RenderContext(
                       OrElse(param_style, self_param_style, {NoneStyle}),
                       OrElse(identifier_quote_char, self_identifier_quote_char,
                              {NoneChar, <<>>}))]
    /\ context_values' = ContextVar_set(context_values, t, t)
    /\ tasks' = [tasks EXCEPT ![t] =
                    [pc |-> "rendering",
                     args |-> <<param_style, identifier_quote_char>>,
                     token |-> ContextVar_get(context_values, t),
                     sites |-> <<>>, query |-> <<>>, bind_log |-> <<>>,
                     result |-> NoResult,
                     earlier |-> IF @.result.kind = "none" THEN @.earlier
                                 ELSE Append(@.earlier, @.result),
                     used |-> @.used + 1]]
    /\ UNCHANGED << instance_vars, render_vars, rewriter_vars >>

\* The render call of task t ends: the finally of _begin_render_context
\* resets the context variable, and the caller has the result.
Returned(t, entry, r) ==
    /\ tasks' = [tasks EXCEPT ![t] = [entry EXCEPT !.pc = "idle", !.result = r]]
    /\ context_values' = ContextVar_reset(context_values, t, tasks[t].token)

\* template.render / render_async of task t evaluates its next site: the
\* filters read self._render_context, which raises RuntimeError when the
\* context variable gives None.
TaskSite(t, site) ==
    /\ tasks[t].pc = "rendering"
    /\ Steps < MaxSteps
    /\ LET ref == ContextVar_get(context_values, t)
           entry == [tasks[t] EXCEPT !.sites = Append(@, site), !.used = @ + 1]
       IN  IF ref = "None"
           THEN /\ Returned(t, entry, Raised("RuntimeError", <<>>))
                /\ heap' = heap
           ELSE LET o == site_outcome(impl, heap[ref], site)
                    bound == [entry EXCEPT !.bind_log = @ \o o.binds]
                IN  /\ heap' = [heap EXCEPT ![ref] = o.ctx]
                    /\ IF o.error = "none"
                       THEN /\ tasks' = [tasks EXCEPT ![t] =
                                            [bound EXCEPT !.query = @ \o o.text]]
                            /\ context_values' = context_values
                       ELSE Returned(t, bound, Raised(o.error, o.name))
    /\ UNCHANGED << instance_vars, render_vars, rewriter_vars >>

\* template.render of task t returns and _render packs the query with
\* self._render_context.params.
TaskEnd(t) ==
    /\ tasks[t].pc = "rendering"
    /\ LET ref == ContextVar_get(context_values, t)
       IN  Returned(t, tasks[t],
                    IF ref = "None" THEN Raised("RuntimeError", <<>>)
                    ELSE RenderedQuery(tasks[t].query, params_of(impl, heap[ref])))
    /\ heap' = heap
    /\ UNCHANGED << instance_vars, render_vars, rewriter_vars >>

NextCalls ==
    \/ \E t \in Task, a \in TaskCallArgs : TaskBegin(t, a[1], a[2])
    \/ \E t \in Task, site \in TaskSites : TaskSite(t, site)
    \/ \E t \in Task : TaskEnd(t)

SpecCalls == InitCalls /\ [][NextCalls]_vars

\* ------------------------------------- a template, compiled and rendered

\* The interpolation sites of a template.
MaxSites == 2

\* The names of the filters of the environment that the templates use:
\* those __init__ registers, and safe and upper of jinja2.
N_bind == <<"b", "i", "n", "d">>

N_bind_in == <<"_", "b", "i", "n", "d", "_", "i", "n">>

N_inclause == <<"i", "n", "c", "l", "a", "u", "s", "e">>

N_identifier == <<"i", "d", "e", "n", "t", "i", "f", "i", "e", "r">>

N_safe == <<"s", "a", "f", "e">>

N_upper == <<"u", "p", "p", "e", "r">>

\* markupsafe.escape, which autoescape=True applies to a str the template
\* outputs.
escape_char(c) ==
    CASE c = "&"  -> <<"&", "a", "m", "p", ";">>
      [] c = "<"  -> <<"&", "l", "t", ";">>
      [] c = ">"  -> <<"&", "g", "t", ";">>
      [] c = "'"  -> <<"&", "#", "3", "9", ";">>
      [] c = "\"" -> <<"&", "#", "3", "4", ";">>
      [] OTHER    -> <<c>>

RECURSIVE escape(_)
escape(s) == IF s = <<>> THEN <<>> ELSE escape_char(Head(s)) \o escape(Tail(s))

LowerChars ==
    <<"a", "b", "c", "d", "e", "f", "g", "h", "i", "j", "k", "l", "m",
      "n", "o", "p", "q", "r", "s", "t", "u", "v", "w", "x", "y", "z">>

UpperChars ==
    <<"A", "B", "C", "D", "E", "F", "G", "H", "I", "J", "K", "L", "M",
      "N", "O", "P", "Q", "R", "S", "T", "U", "V", "W", "X", "Y", "Z">>

\* str.upper
RECURSIVE upper(_)
upper(s) ==
    IF s = <<>> THEN <<>>
    ELSE LET at == {i \in 1..Len(LowerChars) : LowerChars[i] = Head(s)}
         IN  (IF at = {} THEN <<Head(s)>> ELSE <<UpperChars[CHOOSE i \in at : TRUE]>>)
                 \o upper(Tail(s))

\* soft_str of a str or a Markup; the templates pipe nothing else into safe
\* and upper.
soft_str(value) == IF is_str(value) THEN value.v ELSE <<>>

\* The context argument of the render call, {"x": "u", "a": {"b": "w"},
\* "a__b": "v", "xs": ["u", "w"]}: the value of a name with its attributes.
resolve(path) ==
    CASE path = <<"x">>                -> StrValue(<<"u">>)
      [] path = <<"a", ".", "b">>      -> StrValue(<<"w">>)
      [] path = <<"a", "_", "_", "b">> -> StrValue(<<"v">>)
      [] path = <<"x", "s">>           -> ListValue(<<StrValue(<<"u">>), StrValue(<<"w">>)>>)
      [] OTHER                         -> Undefined

\* The evaluation of an expression so far: the context the filters have
\* left, the value, the bind calls that returned, and the error raised.
Evaluation(context, value) ==
    [ctx |-> context, value |-> value, binds |-> <<>>, error |-> "none", name |-> <<>>]

\* One filter of the environment applied to the value so far; called tells
\* whether the template gives it an argument list, arg is its one string.
\* (CHOOSE r \in {f(x) : x \in {e}} : TRUE is f(e) with e computed once.)
apply_filter(package, s, f, called, arg) ==
    CASE f \in {N_bind, N_bind_in} ->
             IF ~called THEN [s EXCEPT !.error = "TypeError"]
             ELSE CHOOSE r \in
                      { [ctx   |-> o.ctx,
                         value |-> IF f = N_bind /\ is_markup(s.value) THEN s.value
                                   ELSE StrValue(o.text),
                         binds |-> s.binds \o o.binds,
                         error |-> o.error,
                         name  |-> o.name] :
                        o \in { IF f = N_bind
                                THEN _bind_filter(package, s.ctx, s.value, arg)
                                ELSE _bind_in_clause_filter(package, s.ctx, s.value, arg) } } :
                      TRUE
      [] f = N_inclause ->
             IF called THEN [s EXCEPT !.error = "TypeError"] ELSE s
      [] f = N_identifier ->
             LET m == _identifier_filter(s.ctx.identifier_quote_char, s.value)
             IN  [s EXCEPT !.value = m.value, !.error = m.error]
      [] f = N_safe -> [s EXCEPT !.value = MarkupValue(soft_str(@))]
      [] f = N_upper ->
             [s EXCEPT !.value = [kind |-> IF is_markup(@) THEN "Markup" ELSE "str",
                                  v |-> upper(soft_str(@))]]
      [] OTHER -> [s EXCEPT !.error = "TemplateAssertionError"]

\* The filters "| f" and "| f("arg")" that follow a value, left to right.
RECURSIVE eval_chain(_, _, _)
eval_chain(package, s, tokens) ==
    IF tokens = <<>> \/ s.error # "none" THEN s
    ELSE LET called == Len(tokens) >= 5 /\ tokens[3].type = "lparen"
             arg == IF called THEN tokens[4].value ELSE <<>>
             rest == SubSeq(tokens, IF called THEN 6 ELSE 3, Len(tokens))
         IN  CHOOSE r \in
                 { eval_chain(package, applied, rest) :
                   applied \in {apply_filter(package, s, tokens[2].value, called, arg)} } :
                 TRUE

\* The tokens of the maximal run of name and dot tokens at the start.
RECURSIVE name_run(_)
name_run(tokens) ==
    IF tokens = <<>> \/ Head(tokens).type \notin {"name", "dot"} THEN <<>>
    ELSE <<Head(tokens)>> \o name_run(Tail(tokens))

RECURSIVE values_of(_)
values_of(tokens) ==
    IF tokens = <<>> THEN <<>> ELSE Head(tokens).value \o values_of(Tail(tokens))

\* The index of the rparen that closes a group, from token i at this depth.
RECURSIVE close_at(_, _, _)
close_at(tokens, i, depth) ==
    IF tokens[i].type = "rparen"
    THEN (IF depth = 1 THEN i ELSE close_at(tokens, i + 1, depth - 1))
    ELSE close_at(tokens, i + 1, IF tokens[i].type = "lparen" THEN depth + 1 ELSE depth)

\* The index of the first "~" outside every group, from token i; 0 if none.
RECURSIVE tilde_at(_, _, _)
tilde_at(tokens, i, depth) ==
    IF i > Len(tokens) THEN 0
    ELSE IF tokens[i].type = "tilde" /\ depth = 0 THEN i
    ELSE tilde_at(tokens, i + 1,
                  CASE tokens[i].type = "lparen" -> depth + 1
                    [] tokens[i].type = "rparen" -> depth - 1
                    [] OTHER -> depth)

\* markup_join of two operands, which autoescape=True compiles "~" to: a
\* Markup operand makes the result a Markup and the other operand escaped.
markup_join(left, right) ==
    IF is_markup(left) \/ is_markup(right)
    THEN MarkupValue((IF is_markup(left) THEN left.v ELSE escape(soft_str(left)))
                         \o (IF is_markup(right) THEN right.v ELSE escape(soft_str(right))))
    ELSE StrValue(soft_str(left) \o soft_str(right))

RECURSIVE eval_expr(_, _, _)

\* An operand of "~" as the engine evaluates it: a parenthesised group, a
\* string literal or a name with its attributes, and then its filters, which
\* bind tighter than "~".
RECURSIVE eval_operand(_, _, _)
eval_operand(package, context, tokens) ==
    IF Head(tokens).type = "lparen"
    THEN LET m == close_at(tokens, 2, 1)
         IN  CHOOSE r \in
                 { eval_chain(package, group, SubSeq(tokens, m + 1, Len(tokens))) :
                   group \in {eval_expr(package, context, SubSeq(tokens, 2, m - 1))} } :
                 TRUE
    ELSE IF Head(tokens).type = "string"
    THEN eval_chain(package, Evaluation(context, StrValue(Head(tokens).value)), Tail(tokens))
    ELSE LET run == name_run(tokens)
         IN  eval_chain(package, Evaluation(context, resolve(values_of(run))),
                        SubSeq(tokens, Len(run) + 1, Len(tokens)))

\* The expression between variable_begin and variable_end as the engine
\* evaluates it: its operands from left to right, joined by "~".
eval_expr(package, context, tokens) ==
    LET t == tilde_at(tokens, 1, 0)
    IN  IF t = 0 THEN eval_operand(package, context, tokens)
        ELSE CHOOSE r \in
                 { IF left.error # "none" THEN left
                   ELSE CHOOSE q \in
                            { [ctx   |-> right.ctx,
                               value |-> markup_join(left.value, right.value),
                               binds |-> left.binds \o right.binds,
                               error |-> right.error,
                               name  |-> right.name] :
                              right \in {eval_expr(package, left.ctx,
                                                   SubSeq(tokens, t + 1, Len(tokens)))} } :
                            TRUE :
                   left \in {eval_operand(package, context, SubSeq(tokens, 1, t - 1))} } :
                 TRUE

\* What the template outputs for a site: a Markup as it is, a str escaped.
render_site(package, context, tokens) ==
    CHOOSE r \in
        { Outcome(s.ctx, s.error, s.name,
                  IF s.error # "none" THEN <<>>
                  ELSE IF is_markup(s.value) THEN s.value.v
                  ELSE escape(soft_str(s.value)),
                  s.binds) :
          s \in {eval_expr(package, context, tokens)} } :
        TRUE

NameToken(value) == Token(1, "name", value)

PipeToken == Token(1, "pipe", <<"|">>)

\* The argument list ("arg") of a filter.
CallTokens(arg) ==
    << Token(1, "lparen", <<"(">>), Token(1, "string", arg), Token(1, "rparen", <<")">>) >>

\* The expressions of the sites: x, a.b, a__b, "u", "w", x | safe,
\* x | upper, x ~ "w", xs | inclause, x | bind("y"), xs | _bind_in("n").
SiteExpressions ==
    { <<NameToken(V_x)>>,
      <<NameToken(<<"a">>), Token(1, "dot", <<".">>), NameToken(<<"b">>)>>,
      <<NameToken(<<"a", "_", "_", "b">>)>>,
      <<Token(1, "string", <<"u">>)>>,
      <<Token(1, "string", <<"w">>)>>,
      <<NameToken(V_x), PipeToken, NameToken(N_safe)>>,
      <<NameToken(V_x), PipeToken, NameToken(N_upper)>>,
      <<NameToken(V_x), Token(1, "tilde", <<"~">>), Token(1, "string", <<"w">>)>>,
      <<NameToken(<<"x", "s">>), PipeToken, NameToken(N_inclause)>>,
      <<NameToken(V_x), PipeToken, NameToken(N_bind)>> \o CallTokens(<<"y">>),
      <<NameToken(<<"x", "s">>), PipeToken, NameToken(N_bind_in)>> \o CallTokens(<<"n">>) }

\* The token streams of the templates "d{{ e1 }}d{{ e2 }}..." of at most n
\* sites.
RECURSIVE SiteTemplates(_)
SiteTemplates(n) ==
    IF n = 0 THEN {<<>>}
    ELSE {<<>>} \cup
         { <<DataToken, BeginToken>> \o e \o <<EndToken>> \o t :
               e \in SiteExpressions, t \in SiteTemplates(n - 1) }

\* The dialects of the render calls of a template.
TemplateCallArgs ==
    { <<NoneStyle, NoneChar>>, <<StyleName("pyformat"), NoneChar>>,
      <<StyleName("qmark"), NoneChar>> }

\* from_string(source, context=...) is about to be called on a new instance;
\* stream holds the tokens the lexer gives for source.
InitTemplate ==
    /\ impl = "jinja2sql"
    /\ self_param_style = DEFAULT_PARAM_STYLE
    /\ self_identifier_quote_char = DEFAULT_IDENTIFIER_QUOTE_CHAR
    /\ render_context_var = "None"
    /\ ctx = RenderContext(NoneStyle, <<>>)
    /\ pc = "idle"
    /\ query = <<>>
    /\ work = 0
    /\ bind_log = <<>>
    /\ last = NoCall
    /\ result = NoResult
    /\ stream \in SiteTemplates(MaxSites) \ {<<>>}
    /\ yielded = <<>>
    /\ NoTasks

\* from_string enters _begin_render_context.
TemplateBegin(param_style, identifier_quote_char) ==
    /\ yielded = <<>>
    /\ Begin(param_style, identifier_quote_char)

\* env.from_string(source): the parser draws the tokens through
\* filter_stream.
TemplateCompile ==
    /\ pc = "rendering"
    /\ FilterStreamStep

\* template.render outputs the next part of the compiled template, a data
\* token or an interpolation; work counts the tokens rendered.
TemplateOutput ==
    /\ pc = "rendering" /\ render_context_var = "ctx"
    /\ stream = <<>>
    /\ work < Len(yielded)
    /\ LET rest == SubSeq(yielded, work + 1, Len(yielded))
           site == until_variable_end(rest)
       IN  IF Head(rest).type = "data"
           THEN Evaluated("data", <<>>, StrValue(Head(rest).value),
                          Outcome(ctx, "none", <<>>, Head(rest).value, <<>>), 1)
           ELSE \E o \in {render_site(impl, ctx, Tail(site))} :
                    Evaluated("site", <<>>, StrValue(<<>>), o, Len(site) + 1)

\* template.render returns after the last token.
TemplateEnd ==
    /\ stream = <<>>
    /\ work = Len(yielded)
    /\ End

NextTemplate ==
    \/ \E a \in TemplateCallArgs : TemplateBegin(a[1], a[2])
    \/ TemplateCompile
    \/ TemplateOutput
    \/ TemplateEnd

SpecTemplate == InitTemplate /\ [][NextTemplate]_vars

\* ------------------------------------------------------------ properties

\* The dialect of the render in progress or just ended.
Positional == ~ctx.param_style.callable /\ ctx.param_style.name \in PositionalStyles

\* The placeholder table of the dialects: the text for key k and index i.
PlaceholderTable(style, k, i) ==
    IF style.callable THEN ParamStyleFunc(style.name, k, i)
    ELSE CASE style.name = "named"    -> <<":">> \o k
           [] style.name = "qmark"    -> <<"?">>
           [] style.name = "format"   -> <<"%", "s">>
           [] style.name = "numeric"  -> <<":">> \o IntToStr(i)
           [] style.name = "pyformat" -> <<"%", "(">> \o k \o <<")", "s">>
           [] style.name = "asyncpg"  -> <<"$">> \o IntToStr(i)
           [] OTHER                   -> <<"no placeholder">>

\* C1: every bind call that returned key k and index i and produced a
\* placeholder produced the text the table gives for the dialect of the
\* render, k and i, whatever value was bound.
C1_PlaceholderFixedByDialect ==
    \A j \in 1..Len(bind_log) :
        bind_log[j].emitted =>
            bind_log[j].text =
                PlaceholderTable(ctx.param_style, bind_log[j].key, bind_log[j].index)

\* C1 witness: a render under asyncpg has bound two different values at two
\* sites, and the second placeholder is "$2".
C1_Witness ==
    /\ ctx.param_style = StyleName("asyncpg")
    /\ Len(bind_log) = 2
    /\ bind_log[1].value # bind_log[2].value
    /\ bind_log[2].emitted
    /\ bind_log[2].text = <<"$", "2">>

C3_OneValuePerPlaceholder ==
    ( /\ result.kind = "RenderedQuery"
      /\ Positional
      /\ \A j \in 1..Len(bind_log) : ~bind_log[j].in_clause /\ bind_log[j].emitted )
    =>  /\ Params_len(result.params) = Len(bind_log)
        /\ \A j \in 1..Len(bind_log) :
               Params_getitem_int(result.params, j - 1) = bind_log[j].value

\* The keys of bound_values.
BoundKeys == {ctx._params[i].k : i \in 1..Len(ctx._params)}

\* C4: every key a bind call of the render has returned has exactly one
\* entry in bound_values, and exactly one key in the mapping a finished
\* render returns.
C4_NoDanglingPlaceholder ==
    \A j \in 1..Len(bind_log) :
        /\ Cardinality({i \in 1..Len(ctx._params) : ctx._params[i].k = bind_log[j].key}) = 1
        /\ (result.kind = "RenderedQuery" /\ result.params.type # "tuple") =>
               Cardinality({i \in 1..Params_len(result.params) :
                               Params_iter(result.params)[i] = bind_log[j].key}) = 1

\* C4 witness: a render under named has ended after binds of a dotted name
\* and of a list, whose keys are not the names given.
C4_Witness ==
    /\ result.kind = "RenderedQuery"
    /\ ctx.param_style = StyleName("named")
    /\ \E j \in 1..Len(bind_log) : bind_log[j].key = <<"a", "_", "_", "b">>
    /\ \E j \in 1..Len(bind_log) : bind_log[j].in_clause

\* C5: the j-th bind call of a render that returned has returned index j, and
\* param_index is the number of those calls.
C5_IndexCountsBindCalls ==
    /\ ctx._param_index = Len(bind_log)
    /\ \A j \in 1..Len(bind_log) : bind_log[j].index = j

\* C5 witness: a scalar bind and then a list element under another name have
\* returned 1 and 2.
C5_Witness ==
    /\ Len(bind_log) = 2
    /\ ~bind_log[1].in_clause /\ bind_log[2].in_clause
    /\ bind_log[2].name # bind_log[1].name
    /\ bind_log[1].index = 1 /\ bind_log[2].index = 2

\* A step of the render that evaluated one site.
SiteStep == work' > work

\* The keys name_1 .. name_N of a list bind of N values.
ListKeys(name, N) ==
    [i \in 1..N |-> Replace(name, <<".">>, <<"_", "_">>) \o <<"_">> \o IntToStr(i)]

\* C6, as claimed: a list bind that returns, of N values under a name no bind
\* call of the render was given before, adds to bound_values exactly the N
\* entries name_i -> values[i], under N distinct keys that were not there,
\* leaves every entry that was there as it was, and returns "(" + the
\* placeholders of name_1 .. name_N joined by ", " + ")"; with N = 0 it
\* returns "()" and leaves the context as it was.
C6_ListBindAddsEntries ==
    [][ ( /\ SiteStep
          /\ last'.op = "_bind_in"
          /\ last'.out.error = "none"
          /\ ~DictHas(ctx._param_indexes, last'.name) )
        =>  LET items == list_of(last'.arg)
                N == Len(items)
                keys == ListKeys(last'.name, N)
                keyset == {keys[i] : i \in 1..N}
                placeholders ==
                    [i \in 1..N |->
                        PlaceholderTable(ctx.param_style, keys[i], ctx._param_index + i)]
            IN  /\ Cardinality(keyset) = N
                /\ keyset \cap BoundKeys = {}
                /\ Len(ctx'._params) = Len(ctx._params) + N
                /\ \A i \in 1..N :
                       /\ DictHas(ctx'._params, keys[i])
                       /\ DictGet(ctx'._params, keys[i]) = items[i]
                /\ \A i \in 1..Len(ctx._params) : ctx'._params[i] = ctx._params[i]
                /\ last'.out.text =
                       <<"(">> \o Join(<<",", " ">>, placeholders) \o <<")">>
                /\ N = 0 => /\ ctx' = ctx
                            /\ bind_log' = bind_log
                            /\ last'.out.text = <<"(", ")">>
      ]_vars

\* bound_values after the bind calls of binds, in order.
RECURSIVE AfterBinds(_, _)
AfterBinds(d, binds) ==
    IF binds = <<>> THEN d
    ELSE AfterBinds(DictSet(d, Head(binds).key, Head(binds).value), Tail(binds))

\* C7: a filter call that meets an undefined value raises UndefinedError
\* naming the parameter out of the render call, which returns no query and no
\* parameters; the context is what the bind calls that returned before it
\* left (for a scalar site, unchanged).
C7_UndefinedRaisesUnchanged ==
    [][ (SiteStep /\ last'.out.error = "UndefinedError")
        =>  LET new == SubSeq(bind_log', Len(bind_log) + 1, Len(bind_log'))
            IN  /\ result' = Raised("UndefinedError", last'.name)
                /\ pc' = "idle"
                /\ query' = query
                /\ ctx'._param_index = ctx._param_index + Len(new)
                /\ ctx'._params = AfterBinds(ctx._params, new)
                /\ \A n \in Names :
                       DefaultGet(ctx'._param_indexes, n) =
                           DefaultGet(ctx._param_indexes, n)
                               + (IF n = last'.name THEN Len(new) ELSE 0)
                /\ last'.op = "bind" => (ctx' = ctx /\ bind_log' = bind_log)
      ]_vars

\* C7 witness: the second site of a render under qmark met an undefined value
\* for the dotted name, after one value was bound.
C7_Witness ==
    /\ result = Raised("UndefinedError", <<"a", ".", "b">>)
    /\ last.op = "bind"
    /\ ctx.param_style = StyleName("qmark")
    /\ Len(bind_log) = 1
    /\ ctx._param_index = 1

\* C9: a site whose value is the Markup of the identifier filter or of the
\* safe filter puts that text into the query and leaves the context and the
\* binds of the render as they were; the first bind call of a render returns
\* index 1, and a render with no bind returns no parameters.
C9_MarkupIsNotBound ==
    /\ [][ (SiteStep /\ last'.op \in {"identifier", "safe"} /\ last'.out.error = "none")
           =>  /\ ctx' = ctx
               /\ bind_log' = bind_log
               /\ query' = query \o last'.out.text
         ]_vars
    /\ [](bind_log # <<>> => bind_log[1].index = 1)
    /\ []((result.kind = "RenderedQuery" /\ bind_log = <<>>) =>
              Params_len(result.params) = 0)

\* C9 witness: after an identifier site and a safe site, whose texts begin the
\* query, the first bind of the render has returned index 1.
C9_Witness ==
    /\ last.op = "bind"
    /\ work = 3
    /\ Len(bind_log) = 1
    /\ bind_log[1].index = 1
    /\ bind_log[1].emitted
    /\ Len(query) >= 3
    /\ SubSeq(query, 1, 3) = <<"t", "\"", "u">>

\* The tokens a step of filter_stream has read, and those it has yielded.
Consumed == SubSeq(stream, 1, Len(stream) - Len(stream'))

Yielded == SubSeq(yielded', Len(yielded) + 1, Len(yielded'))

\* The names that exempt an interpolation from the rewrite.
ExemptionSet ==
    {<<"b", "i", "n", "d">>, <<"_", "b", "i", "n", "d", "_", "i", "n">>, <<"s", "a", "f", "e">>}

\* A step of filter_stream over an interpolation whose last token before
\* variable_end is a name token of the exemption set.
ExemptSiteStep ==
    /\ Len(stream') < Len(stream)
    /\ Head(stream).type = "variable_begin"
    /\ Consumed[Len(Consumed) - 1].type = "name"
    /\ Consumed[Len(Consumed) - 1].value \in ExemptionSet

\* C8: for an interpolation whose last token before variable_end is a name
\* token with a value in {bind, _bind_in, safe}, filter_stream yields exactly
\* the tokens it read, in order.
C8_ExemptSiteUnchanged == [][ExemptSiteStep => Yielded = Consumed]_vars

\* C8 witness: the site "{{ x | safe }}" has been read and yielded as it was.
C8_Witness ==
    /\ stream = <<>>
    /\ yielded = << BeginToken, Token(1, "name", V_x), Token(1, "pipe", <<"|">>),
                    Token(1, "name", <<"s", "a", "f", "e">>), EndToken >>

\* A segment with every occurrence of the quote character doubled.
RECURSIVE Doubled(_, _)
Doubled(segment, q) ==
    IF segment = <<>> THEN <<>>
    ELSE (IF <<Head(segment)>> = q THEN q \o q ELSE <<Head(segment)>>)
             \o Doubled(Tail(segment), q)

Quoted(segment, q) == q \o Doubled(segment, q) \o q

\* C10: the identifier filter gives, for a str or a sequence of str, the
\* segments joined by ".", each as quote char + the segment with every quote
\* char in it doubled + quote char, and with the empty quote char the
\* segments as they are joined by "."; for a value that is not iterable it
\* raises an error, which leaves the render call.
C10_IdentifierQuoted ==
    last.op = "identifier" =>
        LET q == ctx.identifier_quote_char
            segments == IF last.arg.kind = "str" THEN <<last.arg.v>> ELSE last.arg.v
        IN  IF last.arg.kind \in {"str", "list"}
            THEN /\ last.out.error = "none"
                 /\ last.out.text =
                        Join(<<".">>, [i \in 1..Len(segments) |-> Quoted(segments[i], q)])
                 /\ q = <<>> => last.out.text = Join(<<".">>, segments)
            ELSE /\ last.out.error = "ValueError"
                 /\ result = Raised("ValueError", <<>>)

\* C10 witness: with the quote char '"' the segments 'a"' and 'a' have given
\* '"a"""."a"'.
C10_Witness ==
    /\ last.op = "identifier"
    /\ ctx.identifier_quote_char = <<"\"">>
    /\ last.arg.kind = "list"
    /\ last.arg.v = << <<"a", "\"">>, <<"a">> >>
    /\ last.out.text = <<"\"", "a", "\"", "\"", "\"", ".", "\"", "a", "\"">>

\* The tasks that have called a render method.
Called == {t \in Task : tasks[t].used > 0}

\* C11, as claimed: the context of a render call has the dialect and the
\* quote character the call was given, whatever value was given, and the
\* defaults of the instance for what the call was not given.
C11_PerCallArgumentsUsed ==
    \A t \in Called :
        /\ heap[t].param_style =
               (IF tasks[t].args[1] = NoneStyle THEN self_param_style
                ELSE tasks[t].args[1])
        /\ heap[t].identifier_quote_char =
               (IF tasks[t].args[2] = NoneChar THEN self_identifier_quote_char
                ELSE tasks[t].args[2])

\* A context as RenderContext.__init__ leaves it.
IsFresh(context) ==
    /\ context._param_index = 0
    /\ context._params = <<>>
    /\ context._param_indexes = <<>>

\* C12: every render call begins with a new context in the context variable,
\* with index 0, no bound value and no counter; the first bind call of a
\* render returns index 1, and every key of the parameters a render returns
\* was returned by a bind call of that render, with the value that call was
\* given; whatever the earlier render calls of the instance did.
C12_FreshContextEveryRender ==
    /\ [][ \A t \in Task :
               (tasks[t].pc = "idle" /\ tasks'[t].pc = "rendering")
               =>  /\ ContextVar_get(context_values', t) # "None"
                   /\ IsFresh(heap'[ContextVar_get(context_values', t)])
         ]_vars
    /\ [](\A t \in Task :
              tasks[t].bind_log # <<>> => tasks[t].bind_log[1].index = 1)
    /\ [](\A t \in Task :
              tasks[t].result.kind = "RenderedQuery" =>
                  LET keys == Params_iter(tasks[t].result.params)
                  IN  \A i \in 1..Len(keys) :
                          \E j \in 1..Len(tasks[t].bind_log) :
                              /\ tasks[t].bind_log[j].key = keys[i]
                              /\ tasks[t].bind_log[j].value =
                                     Params_getitem_key(tasks[t].result.params, keys[i]))

\* C12 witness: task A's first render returned a parameter x, and its second
\* render, of a list site, has returned x_1 alone, bound with index 1.
C12_Witness ==
    /\ Len(tasks["A"].earlier) = 1
    /\ tasks["A"].earlier[1].kind = "RenderedQuery"
    /\ Params_iter(tasks["A"].earlier[1].params) = << <<"x">> >>
    /\ tasks["A"].result.kind = "RenderedQuery"
    /\ Params_iter(tasks["A"].result.params) = << <<"x", "_", "1">> >>
    /\ tasks["A"].bind_log[1].index = 1

\* The context a render call creates from its arguments.
ContextOf(args) ==
    RenderContext(OrElse(args[1], self_param_style, {NoneStyle}),
                  OrElse(args[2], self_identifier_quote_char, {NoneChar, <<>>}))

\* A render with these sites and nothing else running: the context, the
\* query and the bind calls after the last site, or the error of a site.
RECURSIVE alone(_, _, _, _)
alone(context, sites, q, binds) ==
    IF sites = <<>>
    THEN [ctx |-> context, query |-> q, binds |-> binds, error |-> "none", name |-> <<>>]
    ELSE LET o == site_outcome(impl, context, Head(sites))
         IN  IF o.error # "none"
             THEN [ctx |-> o.ctx, query |-> q, binds |-> binds \o o.binds,
                   error |-> o.error, name |-> o.name]
             ELSE alone(o.ctx, Tail(sites), q \o o.text, binds \o o.binds)

\* C13: with the render calls of two tasks interleaved, every task's context,
\* query, bind calls (keys and indices) and result are those of its render
\* run alone with the same arguments and sites.
C13_InterleavedRendersIsolated ==
    \A t \in Called :
        LET a == alone(ContextOf(tasks[t].args), tasks[t].sites, <<>>, <<>>)
        IN  /\ heap[t] = a.ctx
            /\ tasks[t].query = a.query
            /\ tasks[t].bind_log = a.binds
            /\ tasks[t].pc = "rendering" =>
                   (a.error = "none" /\ ContextVar_get(context_values, t) = t)
            /\ tasks[t].pc = "idle" =>
                   tasks[t].result =
                       (IF a.error = "none"
                        THEN RenderedQuery(a.query, params_of(impl, a.ctx))
                        ELSE Raised(a.error, a.name))

\* C13 witness: both tasks are inside a render call and each has bound its
\* own value under the name x with index 1.
C13_Witness ==
    /\ tasks["A"].pc = "rendering" /\ tasks["B"].pc = "rendering"
    /\ Len(tasks["A"].bind_log) = 1 /\ Len(tasks["B"].bind_log) = 1
    /\ tasks["A"].bind_log[1].value # tasks["B"].bind_log[1].value
    /\ tasks["A"].bind_log[1].key = tasks["B"].bind_log[1].key
    /\ tasks["A"].bind_log[1].index = 1 /\ tasks["B"].bind_log[1].index = 1

\* A dialect that is neither a function nor one of the six names.
UnknownStyle(style) == ~style.callable /\ style.name \notin ParamStyle

\* The calls of _bind_param a site makes: one for a value that is no Markup,
\* one for each item of a list, none for an identifier.
BindAttempts(site) ==
    CASE site.op = "bind" -> IF is_markup(site.arg) THEN 0 ELSE 1
      [] site.op = "_bind_in" -> Len(list_of(site.arg))
      [] OTHER -> 0

\* The value of the first _bind_param call of a site that makes one.
FirstBound(site) == IF site.op = "bind" THEN site.arg ELSE Head(list_of(site.arg))

\* C14: an instance is constructed with, and a render begins under, a
\* dialect name that is none of the six; the render goes on while its sites
\* make no bind call and then returns its result; its first bind call ends
\* it with an error and no result, ValueError for a value that is defined.
C14_UnknownDialectFailsAtFirstBind ==
    \A t \in Called :
        UnknownStyle(heap[t].param_style) =>
            LET sites == tasks[t].sites
                attempts == {i \in 1..Len(sites) : BindAttempts(sites[i]) > 0}
            IN  IF attempts = {}
                THEN /\ tasks[t].result.kind # "error"
                     /\ tasks[t].pc = "idle" =>
                            /\ tasks[t].result.kind = "RenderedQuery"
                            /\ tasks[t].result.query = tasks[t].query
                            /\ Params_len(tasks[t].result.params) = 0
                ELSE /\ attempts = {Len(sites)}
                     /\ tasks[t].pc = "idle"
                     /\ tasks[t].result.kind = "error"
                     /\ tasks[t].result.error =
                            (IF is_undefined(FirstBound(sites[Len(sites)]))
                             THEN "UndefinedError" ELSE "ValueError")

\* C14 witness: on an instance constructed with the dialect "oracle", a
\* render of one identifier site has returned its query with no parameters,
\* and the next render has ended with ValueError at its first bind.
C14_Witness ==
    /\ self_param_style = StyleName("oracle")
    /\ Len(tasks["A"].earlier) = 1
    /\ tasks["A"].earlier[1].kind = "RenderedQuery"
    /\ tasks["A"].earlier[1].query = <<"t", "\"">>
    /\ tasks["A"].args = <<NoneStyle, NoneChar>>
    /\ tasks["A"].result = Raised("ValueError", <<>>)
    /\ Len(tasks["A"].sites) = 1

\* The scalar bind calls of the render so far that were given this name.
ScalarBindsOf(name) ==
    {i \in 1..Len(bind_log) : ~bind_log[i].in_clause /\ bind_log[i].name = name}

C16_ListBindNeverOverwrites ==
    \A j \in 1..Len(bind_log) :
        bind_log[j].in_clause =>
            \A i \in 1..(j - 1) : bind_log[i].key # bind_log[j].key

\* The list-element bind calls of the render up to the j-th that were given
\* the name of the j-th.
ListBindsUpTo(j) ==
    {i \in 1..j : bind_log[i].in_clause /\ bind_log[i].name = bind_log[j].name}

\* C17, as claimed: a scalar bind leaves the occurrence counters as they
\* were, and the key of a list element is its name with the number of list
\* elements bound under that name so far, so the first list bind of x gives
\* x_1 .. x_N whatever scalar binds of x came before.
C17_CounterCountsListBindsOnly ==
    /\ [][ (SiteStep /\ last'.op = "bind")
           => ctx'._param_indexes = ctx._param_indexes ]_vars
    /\ [](\A j \in 1..Len(bind_log) :
              bind_log[j].in_clause =>
                  bind_log[j].key =
                      param_key_of(bind_log[j].name,
                                   <<"_">> \o IntToStr(Cardinality(ListBindsUpTo(j)))))

\* A step of filter_stream that reads an interpolation, and the expression
\* tokens between its variable_begin and its variable_end.
SiteCompileStep ==
    /\ Len(stream') < Len(stream)
    /\ Head(stream).type = "variable_begin"

ConsumedExpression == SubSeq(Consumed, 2, Len(Consumed) - 1)

\* The expression ends in a filter of the exemption set, written "| f" or
\* "| f("arg")".
AppliesExemptFilter(E) ==
    LET n == Len(E)
    IN  \/ /\ n >= 2
           /\ E[n].type = "name" /\ E[n].value \in ExemptionSet
           /\ E[n - 1].type = "pipe"
        \/ /\ n >= 5
           /\ E[n].type = "rparen" /\ E[n - 1].type = "string" /\ E[n - 2].type = "lparen"
           /\ E[n - 3].type = "name" /\ E[n - 3].value \in ExemptionSet
           /\ E[n - 4].type = "pipe"

\* A step of template.render that outputs an interpolation, and the bind
\* calls that returned in it.
SiteOutputStep == work' > work /\ last'.op = "site"

StepBinds == SubSeq(bind_log', Len(bind_log) + 1, Len(bind_log'))

\* At most one bind: one scalar bind call, or the bind calls of the elements
\* of one list under one name.
AtMostOneBind(binds) ==
    \/ Len(binds) <= 1
    \/ \A i \in 1..Len(binds) : binds[i].in_clause /\ binds[i].name = binds[1].name

\* C18, as claimed: an interpolation that ends in bind, _bind_in or safe,
\* with or without an argument list, is yielded by filter_stream exactly as
\* it was read, and the output of an interpolation makes at most one bind.
C18_ExemptSiteBindsOnce ==
    [][ /\ (SiteCompileStep /\ AppliesExemptFilter(ConsumedExpression))
            => Yielded = Consumed
        /\ SiteOutputStep => AtMostOneBind(StepBinds) ]_vars

\* The interpolations of a compiled template, each from its variable_begin
\* to the token before its variable_end.
RECURSIVE sites_of(_)
sites_of(tokens) ==
    IF tokens = <<>> THEN <<>>
    ELSE IF Head(tokens).type = "variable_begin"
    THEN LET site == until_variable_end(tokens)
         IN  <<site>> \o sites_of(SubSeq(tokens, Len(site) + 2, Len(tokens)))
    ELSE sites_of(Tail(tokens))

KeywordDialect == ~ctx.param_style.callable /\ ctx.param_style.name \in {"named", "pyformat"}

\* C19, as claimed: when a render under a keyword dialect has returned, its
\* interpolations are pairwise different and its bind calls carry pairwise
\* different values, the returned params hold under the key of every bind
\* call the value of that call.
C19_KeysCollisionFree ==
    LET sites == sites_of(yielded)
    IN  ( /\ pc = "idle" /\ result.kind = "RenderedQuery"
          /\ KeywordDialect
          /\ \A i, j \in 1..Len(sites) : i # j => sites[i] # sites[j]
          /\ \A i, j \in 1..Len(bind_log) :
                 i # j => bind_log[i].value # bind_log[j].value )
        => \A i \in 1..Len(bind_log) :
               Params_getitem_key(result.params, bind_log[i].key) = bind_log[i].value

\* The derived parameter name of an expression: the values of its leading
\* name and dot tokens joined, or bind_0 when it begins with neither.
RECURSIVE LeadingName(_)
LeadingName(E) ==
    IF E = <<>> \/ Head(E).type \notin {"name", "dot"} THEN <<>>
    ELSE Head(E).value \o LeadingName(Tail(E))

DerivedName(E) ==
    IF LeadingName(E) = <<>> THEN <<"b", "i", "n", "d", "_", "0">> ELSE LeadingName(E)

BindingFilters == {<<"b", "i", "n", "d">>, <<"_", "b", "i", "n", "d", "_", "i", "n">>}

\* A token of the given type whose value is its spelling.
IsToken(token, type, value) == token.type = type /\ token.value = value

\* out is begin, "(", E, ")", "|", a binding filter, "(", the derived name
\* as a string, ")", end.
RewrittenAs(out, begin, E, end) ==
    LET n == Len(E)
    IN  /\ Len(out) = n + 9
        /\ out[1] = begin
        /\ IsToken(out[2], "lparen", <<"(">>)
        /\ SubSeq(out, 3, n + 2) = E
        /\ IsToken(out[n + 3], "rparen", <<")">>)
        /\ IsToken(out[n + 4], "pipe", <<"|">>)
        /\ out[n + 5].type = "name" /\ out[n + 5].value \in BindingFilters
        /\ IsToken(out[n + 6], "lparen", <<"(">>)
        /\ IsToken(out[n + 7], "string", DerivedName(E))
        /\ IsToken(out[n + 8], "rparen", <<")">>)
        /\ out[n + 9] = end

\* A step of filter_stream over an interpolation that is not exempt: its
\* last token before variable_end is no name token of the exemption set.
NonExemptSiteStep ==
    /\ SiteCompileStep
    /\ LET last_token == Consumed[Len(Consumed) - 1]
       IN  ~(last_token.type = "name" /\ last_token.value \in ExemptionSet)

\* A step of filter_stream over a token outside the interpolations.
OutsideStep ==
    /\ Len(stream') < Len(stream)
    /\ Head(stream).type # "variable_begin"

\* The interpolation that template.render outputs next, from its
\* variable_begin to the token before its variable_end.
NextSite == until_variable_end(SubSeq(yielded, work + 1, Len(yielded)))

\* The interpolation has the form filter_stream gives the sites it rewrites:
\* a group first and a binding filter with one string last.
IsRewrittenSite(site) ==
    LET n == Len(site)
    IN  /\ n >= 9
        /\ site[2].type = "lparen"
        /\ site[n].type = "rparen" /\ site[n - 1].type = "string"
        /\ site[n - 2].type = "lparen"
        /\ site[n - 3].type = "name" /\ site[n - 3].value \in BindingFilters
        /\ site[n - 4].type = "pipe" /\ site[n - 5].type = "rparen"
        /\ close_at(site, 3, 1) = n - 5

\* The values an implicit bind of a value stores: the elements of the list
\* for _bind_in, the value itself for bind, nothing for a Markup.
ImplicitValues(filter, value) ==
    IF filter = <<"_", "b", "i", "n", "d", "_", "i", "n">> THEN list_of(value)
    ELSE IF is_markup(value) THEN <<>>
    ELSE <<value>>

ValuesOf(binds) == [i \in 1..Len(binds) |-> binds[i].value]

\* The output of a rewritten interpolation that raises nothing makes the
\* bind calls of its expression E, evaluated on its own in the context of
\* the render, and then binds the value of E under the derived name.
BindsWholeExpression ==
    LET site == NextSite
        n == Len(site)
        E == SubSeq(site, 3, n - 6)
        whole == eval_expr(impl, ctx, E)
        own == Len(whole.binds)
        implicit == SubSeq(StepBinds, own + 1, Len(StepBinds))
    IN  /\ whole.error = "none"
        /\ SubSeq(StepBinds, 1, own) = whole.binds
        /\ ValuesOf(implicit) = ImplicitValues(site[n - 3].value, whole.value)
        /\ \A i \in 1..Len(implicit) : implicit[i].name = site[n - 1].value

\* C20: filter_stream yields for an interpolation that is not exempt its
\* variable_begin, "(", its expression tokens as they were, ")", "|", the
\* name of a binding filter, "(", the derived parameter name as a string,
\* ")" and its variable_end; it yields a token outside the interpolations as
\* it is; and the value the rewritten interpolation binds is the value of
\* its whole expression.
C20_RewriteWrapsWholeExpression ==
    [][ /\ NonExemptSiteStep
            => RewrittenAs(Yielded, Head(Consumed), ConsumedExpression,
                           Consumed[Len(Consumed)])
        /\ OutsideStep => Yielded = <<Head(stream)>>
        /\ (SiteOutputStep /\ IsRewrittenSite(NextSite) /\ last'.out.error = "none")
            => BindsWholeExpression ]_vars

\* C20 witness: the template 'd{{ x ~ "w" }}' has been compiled to
\* 'd{{ (x ~ "w") | bind("x") }}' and rendered, and x is bound to "uw".
C20_Witness ==
    /\ pc = "idle" /\ result.kind = "RenderedQuery"
    /\ yielded = << DataToken, BeginToken, Token(1, "lparen", <<"(">>),
                    Token(1, "name", V_x), Token(1, "tilde", <<"~">>),
                    Token(1, "string", <<"w">>), Token(1, "rparen", <<")">>),
                    Token(1, "pipe", <<"|">>), Token(1, "name", <<"b", "i", "n", "d">>),
                    Token(1, "lparen", <<"(">>), Token(1, "string", V_x),
                    Token(1, "rparen", <<")">>), EndToken >>
    /\ Len(bind_log) = 1
    /\ bind_log[1].key = V_x
    /\ bind_log[1].value = StrValue(<<"u", "w">>)

\* The string token that carries the parameter name in the tokens yielded
\* for a rewritten interpolation, and the name token of the filter chosen.
YieldedNameToken == Yielded[Len(Yielded) - 2]

YieldedFilterToken == Yielded[Len(Yielded) - 4]

\* C21: the parameter name filter_stream derives for an interpolation that
\* is not exempt is the values of the name and dot tokens at the start of
\* its expression, up to the first token of another kind, joined in order;
\* it is bind_0 when the expression begins with no such token.
C21_DerivedNameIsLeadingRun ==
    [][ NonExemptSiteStep
            => /\ YieldedNameToken.type = "string"
               /\ YieldedNameToken.value = DerivedName(ConsumedExpression) ]_vars

\* C21 witness: the site "{{ x | x }}" has been read and yielded with the
\* parameter name "x", the run that ends at the pipe.
C21_Witness ==
    /\ stream = <<>>
    /\ Len(yielded) = 12
    /\ SubSeq(yielded, 3, 5) = << Token(1, "name", V_x), Token(1, "pipe", <<"|">>),
                                  Token(1, "name", V_x) >>
    /\ yielded[10] = Token(1, "string", V_x)

\* C22, as claimed: for an interpolation that is not exempt filter_stream
\* chooses _bind_in when the last token before variable_end is a name token
\* with the value inclause, and bind in every other case, a string literal
\* "inclause" among them.
C22_InclauseNameSelectsBindIn ==
    [][ NonExemptSiteStep
            => LET last_token == Consumed[Len(Consumed) - 1]
               IN  /\ YieldedFilterToken.type = "name"
                   /\ YieldedFilterToken.value =
                          IF last_token.type = "name"
                             /\ last_token.value = <<"i", "n", "c", "l", "a", "u", "s", "e">>
                          THEN <<"_", "b", "i", "n", "d", "_", "i", "n">>
                          ELSE <<"b", "i", "n", "d">> ]_vars

=============================================================================
